---- MODULE Spec2Model ----
(***************************************************************************)
(* Number_150: a genetic algorithm (NumberEvolver) converging on a target  *)
(* integer, its bit conversions (utilities) and the viewer loop (Loop.run) *)
(* that redraws the evolver's history.                                     *)
(*                                                                         *)
(* Python lists are modelled as heap objects (heap: address -> sequence),  *)
(* so that rebinding a name (population = sorted(...)) and mutating a list *)
(* in place (random.shuffle, list.append) are told apart: a generation     *)
(* record holds the address of the list it was built with.                 *)
(***************************************************************************)
EXTENDS Integers, Sequences, FiniteSets

VARIABLES
    desired_number,   \* NumberEvolver.__desired_number
    population_size,  \* NumberEvolver.__population_size
    max_number,       \* the constructor's max_number argument
    max_bits,         \* NumberEvolver.__max_bits
    cross_range,      \* NumberEvolver.__cross_range
    best,             \* NumberEvolver.__best (Inf: math.inf)
    iteration,        \* NumberEvolver.__iteration
    heap,             \* the list objects: address -> sequence of ints
    population,       \* NumberEvolver.__population (an address)
    new_pop,          \* NumberEvolver.__new_pop (an address)
    history,          \* NumberEvolver.__history: sequence of records
    pc,               \* position of the evolution thread in __evolve
    i,                \* matings done in the current "for _ in range(population_size)"
    vpc,              \* position of the viewer in the main loop of Loop.run
    drawn,            \* what the viewer has drawn of the history in this frame
    conv_n,           \* argument n of dec_to_bin
    conv_places,      \* argument places of dec_to_bin
    conv_bits,        \* a bit list: the argument of bin_to_dec
    conv_dec,         \* result of bin_to_dec
    conv_pc           \* which conversions have been applied

evolver_vars == <<desired_number, population_size, max_number, max_bits, cross_range,
                  best, iteration, heap, population, new_pop, history, pc, i>>
viewer_vars == <<vpc, drawn>>
conv_vars == <<conv_n, conv_places, conv_bits, conv_dec, conv_pc>>
vars == <<evolver_vars, viewer_vars, conv_vars>>

----------------------------------------------------------------------------
(* Bounds of the model *)

\* generations the log records before the model stops the evolver
MaxIter == 2
\* the same, for the wider bit widths of SpecWide
WideIter == 2
\* largest population_size argument
MaxPopArg == 3
\* largest cross_range argument
MaxCrossArg == 2
\* largest n and largest places given to the conversions
MaxConvN == 255
MaxConvPlaces == 8
\* longest bit list given to bin_to_dec directly
MaxBitsLen == 4

----------------------------------------------------------------------------
(* Arithmetic helpers *)

Abs(x) == IF x < 0 THEN -x ELSE x
Min(a, b) == IF a <= b THEN a ELSE b
Max(a, b) == IF a >= b THEN a ELSE b

RECURSIVE Pow2(_)
Pow2(k) == IF k <= 0 THEN 1 ELSE 2 * Pow2(k - 1)

\* math.inf, and arithmetic with it: abs(x - inf) is inf, inf <= x only for x = inf
Inf == -1
AbsDiff(x, y) == IF x = Inf \/ y = Inf THEN Inf ELSE Abs(x - y)
Leq(a, b) == b = Inf \/ (a # Inf /\ a <= b)

\* math.floor(math.log(m, 2)) for m >= 1
RECURSIVE FloorLog2(_)
FloorLog2(m) == IF m < 2 THEN 0 ELSE 1 + FloorLog2(m \div 2)

----------------------------------------------------------------------------
(* utilities.py *)

\* bin(n).replace('0b', ''): the digits of n >= 0, most significant first
RECURSIVE BinDigits(_)
BinDigits(n) == IF n < 2 THEN <<n>> ELSE Append(BinDigits(n \div 2), n % 2)

\* str.ljust(places, '0'): pads on the right, never truncates
LJust(s, places) ==
    IF Len(s) >= places THEN s
    ELSE s \o [k \in 1..(places - Len(s)) |-> 0]

dec_to_bin(n, places) == LJust(BinDigits(n), places)

\* reduce(lambda prev, curr: (prev[0] + 1, prev[1] + (curr << prev[0])), n, (0, 0))[1]:
\* prev[1] after the first k digits, digit number prev[0] shifted by prev[0]
RECURSIVE BinReduce(_, _)
BinReduce(bits, k) ==
    IF k = 0 THEN 0
    ELSE BinReduce(bits, k - 1) + bits[k] * Pow2(k - 1)

bin_to_dec(bits) == BinReduce(bits, Len(bits))

----------------------------------------------------------------------------
(* The heap of list objects *)

\* a fresh list object: the lowest address not in use
Alloc(h) == CHOOSE a \in 1..(Cardinality(DOMAIN h) + 1) :
                a \notin DOMAIN h /\ \A b \in 1..(a - 1) : b \in DOMAIN h

\* the heap with list a set to s
Store(h, a, s) == [b \in DOMAIN h \cup {a} |-> IF b = a THEN s ELSE h[b]]

\* reference counting: lists that nothing refers to any more are freed
Collect(h, roots) == [a \in DOMAIN h \cap roots |-> h[a]]

HistoryRefs(hist) == {hist[k].population : k \in 1..Len(hist)}

----------------------------------------------------------------------------
(* number_evolver.py: helpers of __evolve *)

\* sorted(seq, key=lambda x: abs(x - b)): a stable sort.  Element j comes
\* after the elements with a smaller key and after the earlier elements with
\* an equal key
SortRank(seq, b, j) ==
    1 + Cardinality({m \in 1..Len(seq) :
                        LET km == AbsDiff(seq[m], b)
                            kj == AbsDiff(seq[j], b)
                        IN \/ ~Leq(kj, km)
                           \/ (km = kj /\ m < j)})

SortedByKey(seq, b) ==
    [k \in 1..Len(seq) |-> seq[CHOOSE j \in 1..Len(seq) : SortRank(seq, b, j) = k]]

\* self.__population[:max(self.__population_size // 4, 2)]
PoolSize(ps) == Max(ps \div 4, 2)
Truncated(seq, ps) == SubSeq(seq, 1, Min(Len(seq), PoolSize(ps)))

\* the outcomes of random.shuffle on a list
Shuffles(seq) ==
    {[k \in 1..Len(seq) |-> seq[p[k]]] :
        p \in {q \in [1..Len(seq) -> 1..Len(seq)] :
                  \A a, b \in 1..Len(seq) : a # b => q[a] # q[b]}}

\* (mutant) random.randint(0, self.__max_bits - 1) as the crossover point
CrossPointsWide(bits) == 0..(bits - 1)

\* random.randint(0, self.__max_bits // 2 - 1): the crossover points
CrossPoints(bits) == 0..(bits \div 2 - 1)
\* random.randint(0, self.__max_bits - 1): the mutated bit
MutationIds(bits) == 0..(bits - 1)

\* the list indices the crossing loop touches: cross + j for j in range(cr)
CrossIndices(cross, cr) == {cross + j : j \in 0..(cr - 1)}

\* the male after "male[cross + j], female[cross + j] = female[cross + j], male[cross + j]"
Crossed(a, b, cross, cr) ==
    [k \in 1..Len(a) |-> IF (k - 1) \in CrossIndices(cross, cr) THEN b[k] ELSE a[k]]

\* (mutant) the mutation left out
MutationDropped(bits, mutation_id) == bits

\* bits[mutation_id] = 1 - bits[mutation_id]
Mutated(bits, mutation_id) ==
    [k \in 1..Len(bits) |-> IF k - 1 = mutation_id THEN 1 - bits[k] ELSE bits[k]]

\* an index a list of length len accepts without IndexError
IndexOK(idx, len) == -len <= idx /\ idx < len

\* sorted([m, f], key=lambda x: abs(x - b))[0]
CloserChild(m, f, b) == IF Leq(AbsDiff(m, b), AbsDiff(f, b)) THEN m ELSE f

\* (mutant) the newest individual always taken as the best
KeepNewest(b, num, desired) == num

\* (mutant) "best_diff < num_diff": at least as close replaces, ties going to
\* the newer candidate
KeepTiesNewer(b, num, desired) ==
    IF Leq(AbsDiff(desired, num), AbsDiff(desired, b)) THEN num ELSE b

\* one pass of "self.__best = self.__best if best_diff <= num_diff else num"
Keep(b, num, desired) ==
    IF Leq(AbsDiff(desired, b), AbsDiff(desired, num)) THEN b ELSE num

\* the loop "for num in self.__population" over the first k individuals
RECURSIVE RescannedTo(_, _, _, _)
RescannedTo(pop, k, b, desired) ==
    IF k = 0 THEN b
    ELSE Keep(RescannedTo(pop, k - 1, b, desired), pop[k], desired)

\* the loop over the whole population
Rescanned(pop, b, desired) == RescannedTo(pop, Len(pop), b, desired)

----------------------------------------------------------------------------
(* number_evolver.py: NumberEvolver.__init__ *)

\* the populations [random.randint(0, m) for _ in range(ps)] can be
InitialPopulations(m, ps) == [1..ps -> 0..m]

\* the state after NumberEvolver(desired, pop_arg, m, cross_arg), before start()
Constructed(desired, pop_arg, m, cross_arg) ==
    /\ desired_number = Min(Max(0, desired), m)
    /\ population_size = Max(pop_arg, 2)
    /\ max_number = m
    /\ max_bits = FloorLog2(m) + 1
    /\ cross_range = Min((FloorLog2(m) + 1) \div 2, cross_arg)
    /\ best = Inf
    /\ iteration = 0
    /\ \E pop \in InitialPopulations(m, Max(pop_arg, 2)) :
          heap = [a \in {1, 2} |-> IF a = 1 THEN pop ELSE <<>>]
    /\ population = 1
    /\ new_pop = 2
    /\ history = <<>>
    /\ pc = "created"
    /\ i = 0

\* the viewer before its first frame
ViewerInit ==
    /\ vpc = "frame"
    /\ drawn = <<>>

\* no conversion under way
ConvIdle ==
    /\ conv_n = 0
    /\ conv_places = 0
    /\ conv_bits = <<>>
    /\ conv_dec = 0
    /\ conv_pc = "none"

----------------------------------------------------------------------------
(* number_evolver.py: NumberEvolver.__evolve, one action per statement *)

Roots(pop_ref, new_ref, hist) == {pop_ref, new_ref} \cup HistoryRefs(hist)

\* start(): self.__thread.start() runs __evolve in its own thread
Start ==
    /\ pc = "created"
    /\ pc' = "while"
    /\ UNCHANGED <<desired_number, population_size, max_number, max_bits, cross_range,
                   best, iteration, heap, population, new_pop, history, i>>
    /\ UNCHANGED <<viewer_vars, conv_vars>>

\* (mutant) a loop that tests its condition only after the body
EnterLoopUnguarded(cap) ==
    /\ pc = "while"
    /\ iteration < cap
    /\ iteration' = iteration + 1
    /\ pc' = "sort"
    /\ UNCHANGED <<desired_number, population_size, max_number, max_bits, cross_range,
                   best, heap, population, new_pop, history, i>>
    /\ UNCHANGED <<viewer_vars, conv_vars>>

\* "while self.__best != self.__desired_number" entered, and the increment of
\* the iteration counter; cap bounds the generations of the model
EnterLoop(cap) ==
    /\ pc = "while"
    /\ best # desired_number
    /\ iteration < cap
    /\ iteration' = iteration + 1
    /\ pc' = "sort"
    /\ UNCHANGED <<desired_number, population_size, max_number, max_bits, cross_range,
                   best, heap, population, new_pop, history, i>>
    /\ UNCHANGED <<viewer_vars, conv_vars>>

\* the while condition fails: __evolve returns and the thread ends
ExitLoop ==
    /\ pc = "while"
    /\ best = desired_number
    /\ pc' = "done"
    /\ UNCHANGED <<desired_number, population_size, max_number, max_bits, cross_range,
                   best, iteration, heap, population, new_pop, history, i>>
    /\ UNCHANGED <<viewer_vars, conv_vars>>

\* (mutant) self.__population.sort(key=...): the list sorted in place
SortInPlace ==
    /\ pc = "sort"
    /\ heap' = Store(heap, population, SortedByKey(heap[population], best))
    /\ pc' = "truncate"
    /\ UNCHANGED <<desired_number, population_size, max_number, max_bits, cross_range,
                   best, iteration, population, new_pop, history, i>>
    /\ UNCHANGED <<viewer_vars, conv_vars>>

\* self.__population = sorted(self.__population, key=...): a new list
Sort ==
    /\ pc = "sort"
    /\ LET a == Alloc(heap)
           h == Store(heap, a, SortedByKey(heap[population], best))
       IN /\ population' = a
          /\ heap' = Collect(h, Roots(a, new_pop, history))
    /\ pc' = "truncate"
    /\ UNCHANGED <<desired_number, population_size, max_number, max_bits, cross_range,
                   best, iteration, new_pop, history, i>>
    /\ UNCHANGED <<viewer_vars, conv_vars>>

\* self.__population = self.__population[:max(...)]: a new list, the breeding pool
Truncate ==
    /\ pc = "truncate"
    /\ LET a == Alloc(heap)
           h == Store(heap, a, Truncated(heap[population], population_size))
       IN /\ population' = a
          /\ heap' = Collect(h, Roots(a, new_pop, history))
    /\ pc' = "mate"
    /\ i' = 0
    /\ UNCHANGED <<desired_number, population_size, max_number, max_bits, cross_range,
                   best, iteration, new_pop, history>>
    /\ UNCHANGED <<viewer_vars, conv_vars>>

\* whether one mating runs without IndexError: both parents exist and every
\* index of the crossing and of the mutation is one both bit lists have
MateIndexOK(male, female, cross, mutation_id) ==
    \A idx \in CrossIndices(cross, cross_range) \cup {mutation_id} :
        IndexOK(idx, Len(male)) /\ IndexOK(idx, Len(female))

\* one pass of "for _ in range(self.__population_size)": shuffle the pool in
\* place, encode its first two members, cross, mutate, decode, and append the
\* child closer to best to new_pop.  The locals of the loop body (male,
\* female, cross, mutation_id, children[0]) are bound in that order; an
\* IndexError ends the thread
Mate ==
    /\ pc = "mate"
    /\ i < population_size
    /\ \E pool \in Shuffles(heap[population]) :
          IF Len(pool) < 2
          THEN /\ heap' = Store(heap, population, pool)
               /\ i' = i
               /\ pc' = "crashed"
          ELSE \E male \in {dec_to_bin(pool[1], max_bits)},
                  female \in {dec_to_bin(pool[2], max_bits)},
                  cross \in CrossPoints(max_bits),
                  mutation_id \in MutationIds(max_bits) :
                  IF MateIndexOK(male, female, cross, mutation_id)
                  THEN \E male_c \in {Mutated(Crossed(male, female, cross, cross_range),
                                              mutation_id)},
                          female_c \in {Mutated(Crossed(female, male, cross, cross_range),
                                                mutation_id)} :
                          \E child \in {CloserChild(bin_to_dec(male_c),
                                                    bin_to_dec(female_c), best)} :
                             /\ heap' = [a \in DOMAIN heap |->
                                           IF a = population THEN pool
                                           ELSE IF a = new_pop THEN Append(heap[a], child)
                                           ELSE heap[a]]
                             /\ i' = i + 1
                             /\ pc' = "mate"
                  ELSE /\ heap' = Store(heap, population, pool)
                       /\ i' = i
                       /\ pc' = "crashed"
    /\ UNCHANGED <<desired_number, population_size, max_number, max_bits, cross_range,
                   best, iteration, population, new_pop, history>>
    /\ UNCHANGED <<viewer_vars, conv_vars>>

\* (mutant) the for loop's else without "self.__new_pop = []"
RebindKeepsNewPop ==
    /\ pc = "mate"
    /\ i >= population_size
    /\ population' = new_pop
    /\ heap' = Collect(heap, Roots(new_pop, new_pop, history))
    /\ pc' = "scan"
    /\ UNCHANGED <<desired_number, population_size, max_number, max_bits, cross_range,
                   best, iteration, new_pop, history, i>>
    /\ UNCHANGED <<viewer_vars, conv_vars>>

\* the for loop's else: self.__population = self.__new_pop; self.__new_pop = []
Rebind ==
    /\ pc = "mate"
    /\ i >= population_size
    /\ population' = new_pop
    /\ LET h == Collect(heap, Roots(new_pop, new_pop, history))
           a == Alloc(h)
       IN /\ new_pop' = a
          /\ heap' = Store(h, a, <<>>)
    /\ pc' = "scan"
    /\ UNCHANGED <<desired_number, population_size, max_number, max_bits, cross_range,
                   best, iteration, history, i>>
    /\ UNCHANGED <<viewer_vars, conv_vars>>

\* "for num in self.__population": the search for the best match
Rescan ==
    /\ pc = "scan"
    /\ best' = Rescanned(heap[population], best, desired_number)
    /\ pc' = "publish"
    /\ UNCHANGED <<desired_number, population_size, max_number, max_bits, cross_range,
                   iteration, heap, population, new_pop, history, i>>
    /\ UNCHANGED <<viewer_vars, conv_vars>>

\* EvolutionIteration(self.__iteration, self.__population, self.__best): the
\* record holds the population list itself, not a copy
Record(it, pop_ref, b) == [iteration |-> it, population |-> pop_ref, best_number |-> b]

\* self.__history.append(...)
Publish ==
    /\ pc = "publish"
    /\ history' = Append(history, Record(iteration, population, best))
    /\ pc' = "sleep"
    /\ UNCHANGED <<desired_number, population_size, max_number, max_bits, cross_range,
                   best, iteration, heap, population, new_pop, i>>
    /\ UNCHANGED <<viewer_vars, conv_vars>>

\* time.sleep(self.__sleep) returns
Sleep ==
    /\ pc = "sleep"
    /\ pc' = "while"
    /\ UNCHANGED <<desired_number, population_size, max_number, max_bits, cross_range,
                   best, iteration, heap, population, new_pop, history, i>>
    /\ UNCHANGED <<viewer_vars, conv_vars>>

----------------------------------------------------------------------------
(* loop.py: the main loop of Loop.run *)

\* what the viewer reads of record k: its fields and the contents of its list
Snapshot(hist, h, k) ==
    [iteration |-> hist[k].iteration,
     population |-> h[hist[k].population],
     best_number |-> hist[k].best_number]

\* a frame starts: the screen is cleared, len(evolver.history) read and the
\* iteration over evolver.history begun
FrameStart ==
    /\ vpc = "frame"
    /\ pc # "created"
    /\ drawn' = <<>>
    /\ vpc' = "draw"
    /\ UNCHANGED <<evolver_vars, conv_vars>>

\* "for iteration, population, best_number in evolver.history": the next
\* record is unpacked and drawn; the list iterator sees records appended
\* since the frame started
DrawRecord ==
    /\ vpc = "draw"
    /\ Len(drawn) < Len(history)
    /\ drawn' = Append(drawn, Snapshot(history, heap, Len(drawn) + 1))
    /\ vpc' = "draw"
    /\ UNCHANGED <<evolver_vars, conv_vars>>

\* the iterator is exhausted: pygame.display.update() and the next frame
FrameEnd ==
    /\ vpc = "draw"
    /\ Len(drawn) >= Len(history)
    /\ vpc' = "frame"
    /\ drawn' = drawn
    /\ UNCHANGED <<evolver_vars, conv_vars>>

----------------------------------------------------------------------------
(* The evolver on its own, at two bits *)

MaxNumbers == {2, 3}
DesiredArgs == -1..4

Init ==
    /\ \E m \in MaxNumbers, d \in DesiredArgs, p \in 1..MaxPopArg, c \in 0..MaxCrossArg :
          Constructed(d, p, m, c)
    /\ ViewerInit
    /\ ConvIdle

Next ==
    \/ Start
    \/ EnterLoop(MaxIter)
    \/ ExitLoop
    \/ Sort
    \/ Truncate
    \/ Mate
    \/ Rebind
    \/ Rescan
    \/ Publish
    \/ Sleep

Spec == Init /\ [][Next]_vars

----------------------------------------------------------------------------
(* Loop.run: the evolver with the viewer reading its history, in any       *)
(* interleaving                                                            *)

\* NumberEvolver(desired_number, population_size, max_number, cross_range)
\* as Loop.run constructs it, at two bits
ViewerInitial ==
    /\ \E d \in {1, 3}, p \in 1..MaxPopArg, c \in 0..MaxCrossArg :
          Constructed(d, p, 3, c)
    /\ ViewerInit
    /\ ConvIdle

ViewerNext ==
    \/ Start
    \/ EnterLoop(MaxIter)
    \/ ExitLoop
    \/ Sort
    \/ Truncate
    \/ Mate
    \/ Rebind
    \/ Rescan
    \/ Publish
    \/ Sleep
    \/ FrameStart
    \/ DrawRecord
    \/ FrameEnd

SpecViewer == ViewerInitial /\ [][ViewerNext]_vars

----------------------------------------------------------------------------
(* The scenario desired_number=5, population_size=4, max_number=7,          *)
(* cross_range=1, run without a bound on the generations.  __evolve writes  *)
(* iteration and history and never reads them, so the two actions below     *)
(* leave them out: the thread's control flow is the one of EnterLoop and    *)
(* Publish, and the state space is finite.                                  *)

\* EnterLoop without the iteration counter
EnterLoopUncounted ==
    /\ pc = "while"
    /\ best # desired_number
    /\ pc' = "sort"
    /\ UNCHANGED <<desired_number, population_size, max_number, max_bits, cross_range,
                   best, iteration, heap, population, new_pop, history, i>>
    /\ UNCHANGED <<viewer_vars, conv_vars>>

\* Publish without the log
PublishUnlogged ==
    /\ pc = "publish"
    /\ pc' = "sleep"
    /\ UNCHANGED <<desired_number, population_size, max_number, max_bits, cross_range,
                   best, iteration, heap, population, new_pop, history, i>>
    /\ UNCHANGED <<viewer_vars, conv_vars>>

\* a mating whose surviving child is closer to desired_number than best is
MateImproves ==
    /\ Mate
    /\ Len(heap'[new_pop]) = Len(heap[new_pop]) + 1
    /\ ~Leq(AbsDiff(desired_number, best),
            AbsDiff(desired_number, heap'[new_pop][Len(heap'[new_pop])]))

LiveInit ==
    /\ Constructed(5, 4, 7, 1)
    /\ ViewerInit
    /\ ConvIdle

LiveNext ==
    \/ Start
    \/ EnterLoopUncounted
    \/ ExitLoop
    \/ Sort
    \/ Truncate
    \/ Mate
    \/ Rebind
    \/ Rescan
    \/ PublishUnlogged
    \/ Sleep

\* the thread is scheduled as long as it can run, and random.shuffle and
\* random.randint draw uniformly and independently: outcomes that are possible
\* again and again (here: a mating that yields a child closer to
\* desired_number than best) eventually happen
LiveFairness ==
    /\ WF_vars(LiveNext)
    /\ SF_vars(MateImproves)

LiveSpec == LiveInit /\ [][LiveNext]_vars /\ LiveFairness

----------------------------------------------------------------------------
(* What the log holds *)

\* the contents of record k: its fields and its population list
Rec(k) == Snapshot(history, heap, k)

\* distance of x to the target
Dist(x) == AbsDiff(desired_number, x)

\* the best estimate the rescan of generation k started from
BestBefore(k) == IF k = 1 THEN Inf ELSE history[k - 1].best_number

\* the thread has ended: __evolve returned or raised
Stopped == pc \in {"done", "crashed"}

\* the last record of the log matches the target
Matched == Len(history) > 0 /\ history[Len(history)].best_number = desired_number

----------------------------------------------------------------------------
(* C1 *)

----------------------------------------------------------------------------
(* C4 *)

\* C4: across the log the best estimate never gets farther from the target:
\* the distance of record k+1's best_number to desired_number is at most that
\* of record k's, math.inf counting as infinitely far.
C4_BestNeverFarther ==
    \A k \in 1..Len(history) :
        Leq(Dist(history[k].best_number), Dist(BestBefore(k)))

\* two records, the second strictly closer than the first, from a population
\* that also holds an individual farther away than the first best
C4_Witness ==
    /\ Len(history) = 2
    /\ ~Leq(Dist(history[1].best_number), Dist(history[2].best_number))
    /\ \E j \in 1..Len(Rec(2).population) :
          ~Leq(Dist(Rec(2).population[j]), Dist(history[1].best_number))

----------------------------------------------------------------------------
(* C5 *)

\* C5: the population at the end of every generation, and the population in
\* every generation record, has exactly population_size members.
C5_PopulationSizeKept ==
    /\ \A k \in 1..Len(history) : Len(Rec(k).population) = population_size
    /\ pc \in {"scan", "publish", "sleep"} => Len(heap[population]) = population_size
    /\ (pc \in {"while", "done"} /\ iteration > 0) =>
           Len(heap[population]) = population_size

\* two generations of a population of three, bred from a pool of two
C5_Witness ==
    /\ Len(history) = 2
    /\ population_size = 3
    /\ pc = "sleep"

----------------------------------------------------------------------------
(* C6 *)

\* C6: the log is append-only and ordered under any interleaving of the
\* viewer with the evolution thread: the record at index k (from 1) has
\* iteration number k; no step removes a record or changes the iteration
\* number, the contents of the population or the best_number of a record in
\* the log; and what the viewer has drawn of a record is what the log holds.
C6_LogAppendOnly ==
    /\ [](\A k \in 1..Len(history) : history[k].iteration = k)
    /\ [][/\ Len(history') >= Len(history)
          /\ \A k \in 1..Len(history) :
                Snapshot(history', heap', k) = Rec(k)]_vars
    /\ [](\A k \in 1..Len(drawn) : k <= Len(history) /\ drawn[k] = Rec(k))

\* the second generation is shuffling its pool and rebuilding the population
\* while the first record is in the log and the viewer has drawn it
C6_Witness ==
    /\ Len(history) = 1
    /\ iteration = 2
    /\ pc = "mate"
    /\ i >= 1
    /\ Len(drawn) = 1

----------------------------------------------------------------------------
(* C8 *)

\* the rescan of the first k individuals with "at least as close replaces"
RECURSIVE RescannedTiesNewer(_, _, _)
RescannedTiesNewer(pop, k, b) ==
    IF k = 0 THEN b
    ELSE KeepTiesNewer(RescannedTiesNewer(pop, k - 1, b), pop[k], desired_number)

\* C8 as stated: the rescan replaces the best estimate by every individual
\* that is at least as close to desired_number, so each record's best_number
\* is what a rescan with ties going to the newer candidate leaves.
C8_TiesFavourNewer ==
    \A k \in 1..Len(history) :
        history[k].best_number =
            RescannedTiesNewer(Rec(k).population, Len(Rec(k).population), BestBefore(k))

\* C8 (amended): the best estimate is replaced only by an individual strictly
\* closer to desired_number: when the population of a record holds one, the
\* record's best_number is the first individual at the least distance;
\* otherwise, ties included, it is the best estimate of the record before.
C8_OnlyStrictlyCloserReplaces ==
    \A k \in 1..Len(history) :
        LET pop == Rec(k).population
            b == history[k].best_number
        IN IF \E j \in 1..Len(pop) : ~Leq(Dist(BestBefore(k)), Dist(pop[j]))
           THEN \E j \in 1..Len(pop) :
                   /\ b = pop[j]
                   /\ \A m \in 1..Len(pop) : Leq(Dist(b), Dist(pop[m]))
                   /\ \A m \in 1..(j - 1) : Dist(pop[m]) # Dist(b)
           ELSE b = BestBefore(k)

\* a second record whose population holds an individual exactly as close as
\* the first record's best_number, another number, and none closer
C8_Witness ==
    /\ Len(history) = 2
    /\ \E j \in 1..Len(Rec(2).population) :
          /\ Rec(2).population[j] # history[1].best_number
          /\ Dist(Rec(2).population[j]) = Dist(history[1].best_number)
    /\ \A j \in 1..Len(Rec(2).population) :
          Leq(Dist(history[1].best_number), Dist(Rec(2).population[j]))

----------------------------------------------------------------------------
(* C7 *)

\* C7: with desired_number=5, population_size=4, max_number=7, cross_range=1,
\* from every initial population and under fair random choices the evolution
\* eventually halts, and it halts with best = 5.
C7_HaltsAtFive == <>[](pc = "done" /\ best = 5)

\* the thread has returned with best = 5, found in a bred population of four
C7_Witness ==
    /\ pc = "done"
    /\ best = 5
    /\ Len(heap[population]) = 4
    /\ \E k \in 1..4 : heap[population][k] = 5

----------------------------------------------------------------------------
(* The evolver at wider bit widths, without the viewer *)

WideMaxNumbers == {2, 5, 12}
WideDesiredArgs == {4}

WideInit ==
    /\ \E m \in WideMaxNumbers, d \in WideDesiredArgs, c \in -1..(MaxCrossArg + 1) :
          Constructed(d, 2, m, c)
    /\ ViewerInit
    /\ ConvIdle

WideNext ==
    \/ Start
    \/ EnterLoop(WideIter)
    \/ ExitLoop
    \/ Sort
    \/ Truncate
    \/ Mate
    \/ Rebind
    \/ Rescan
    \/ Publish
    \/ Sleep

SpecWide == WideInit /\ [][WideNext]_vars

\* every individual of every list: the working population, the children
\* bred so far and the populations of the log
Individuals == UNION {{heap[a][k] : k \in 1..Len(heap[a])} : a \in DOMAIN heap}

\* C9: for every max_number >= 2, also one that is not 2^k - 1, every
\* individual of the initial population and of every generation's population
\* is an integer in [0, max_number].
C9_IndividualsInRange == \A x \in Individuals : 0 <= x /\ x <= max_number

\* C10: a generation step never fails with an out-of-range index: in every
\* mating the thread can come to, both parents exist, each parent's bit list
\* has exactly max_bits entries, and every index of the crossing (cross + j
\* for j < cross_range) and of the mutation lies in [0, max_bits - 1].
C10_IndicesInRange ==
    /\ pc # "crashed"
    /\ (pc = "mate" /\ i < population_size) =>
          \A pool \in Shuffles(heap[population]) :
             /\ Len(pool) >= 2
             /\ Len(dec_to_bin(pool[1], max_bits)) = max_bits
             /\ Len(dec_to_bin(pool[2], max_bits)) = max_bits
             /\ \A cross \in CrossPoints(max_bits), mutation_id \in MutationIds(max_bits) :
                   \A idx \in CrossIndices(cross, cross_range) \cup {mutation_id} :
                      0 <= idx /\ idx <= max_bits - 1

\* a mating of the second generation at four bits with two bits crossed,
\* after a first mating, one parent being larger than max_number
C10_Witness ==
    /\ pc = "mate"
    /\ i = 1
    /\ iteration = 2
    /\ max_bits = 4
    /\ cross_range = 2
    /\ \E k \in 1..2 : heap[population][k] > max_number

----------------------------------------------------------------------------
(* The conversions of utilities.py on their own *)

\* no evolver constructed
NoEvolver ==
    /\ desired_number = 0
    /\ population_size = 0
    /\ max_number = 0
    /\ max_bits = 0
    /\ cross_range = 0
    /\ best = Inf
    /\ iteration = 0
    /\ heap = <<>>
    /\ population = 0
    /\ new_pop = 0
    /\ history = <<>>
    /\ pc = "none"
    /\ i = 0

BitLists == UNION {[1..len -> {0, 1}] : len \in 0..MaxBitsLen}

\* either the arguments of dec_to_bin or a bit list for bin_to_dec
ConvInit ==
    /\ NoEvolver
    /\ ViewerInit
    /\ conv_dec = 0
    /\ \/ /\ conv_pc = "args"
          /\ conv_n \in 0..MaxConvN
          /\ conv_places \in 1..MaxConvPlaces
          /\ conv_bits = <<>>
       \/ /\ conv_pc = "bits"
          /\ conv_n = 0
          /\ conv_places = 0
          /\ conv_bits \in BitLists

\* bits = dec_to_bin(n, places)
Encode ==
    /\ conv_pc = "args"
    /\ conv_bits' = dec_to_bin(conv_n, conv_places)
    /\ conv_pc' = "encoded"
    /\ UNCHANGED <<conv_n, conv_places, conv_dec>>
    /\ UNCHANGED <<evolver_vars, viewer_vars>>

\* dec = bin_to_dec(bits), of a given bit list or of dec_to_bin's result
Decode ==
    /\ conv_pc \in {"bits", "encoded"}
    /\ conv_dec' = bin_to_dec(conv_bits)
    /\ conv_pc' = IF conv_pc = "bits" THEN "decoded" ELSE "round_trip"
    /\ UNCHANGED <<conv_n, conv_places, conv_bits>>
    /\ UNCHANGED <<evolver_vars, viewer_vars>>

ConvNext ==
    \/ Encode
    \/ Decode

SpecConv == ConvInit /\ [][ConvNext]_vars

\* C2: for every n in [0, max_number] and the bit width places of max_number,
\* bin_to_dec(dec_to_bin(n, places)) = n.
C2_RoundTrip ==
    (conv_pc = "round_trip" /\ conv_n < Pow2(conv_places)) => conv_dec = conv_n

\* the places binary digits of n, most significant first, zeros in front
BigEndianDigits(n, places) ==
    [k \in 1..places |-> (n \div Pow2(places - k)) % 2]

\* the value of the first k digits of bits read most significant first
RECURSIVE BigEndianValue(_, _)
BigEndianValue(bits, k) ==
    IF k = 0 THEN 0 ELSE 2 * BigEndianValue(bits, k - 1) + bits[k]

\* C3: the conversions are big-endian, fixed width and zero-padded: for n in
\* [0, 2^places - 1], dec_to_bin(n, places) is the places binary digits of n,
\* most significant first with zeros in front, and bin_to_dec(bits) is the
\* value of bits read most significant first.
C3_BigEndianFixedWidth ==
    /\ (conv_pc = "encoded" /\ conv_n < Pow2(conv_places)) =>
           conv_bits = BigEndianDigits(conv_n, conv_places)
    /\ conv_pc = "decoded" => conv_dec = BigEndianValue(conv_bits, Len(conv_bits))

====
